---- MODULE Spec2Model ----
(***************************************************************************)
(* A model of the self-training classifier's labeling pipeline and vector  *)
(* memory: the auto-label gate (model.py), the merges of the pending store *)
(* into the main dataset (merge_labeledcsv.py, curate_knowledge.py and the *)
(* module-level merge at the end of memory.py), the Memory class           *)
(* (memory.py), the CSV dialects of the gate's writer and the merges'      *)
(* reader, and the classifier (model.py) with its trainer (learn.py).      *)
(*                                                                         *)
(* A CSV file is a record [exists, lines]; a line is a sequence of cells.  *)
(* A DataFrame is a record [cols, rows]; NaN is the empty cell.            *)
(* Confidences are in hundredths (0.85 is 85).                             *)
(***************************************************************************)
EXTENDS Integers, Sequences, FiniteSets, TLC

VARIABLES
    pending,        \* AUTO_LABELED_CSV (data/auto_labeled_data.csv)
    main,           \* LABELED_DATA_CSV (data/labeled_data.csv)
    last,           \* the last labeling operation and what it was called with
    auto_csv,       \* data/auto_labeled.csv, read by the merge at the end of memory.py
    labeled_csv,    \* data/labeled.csv, read and written by that merge
    legacyRan,      \* how the last run of that merge ended
    memory,         \* the Memory object of the running process: index and metadata
    index_file,     \* INDEX_PATH (data/memory.index)
    meta_file,      \* METADATA_PATH (data/metadata.pkl)
    damaged,        \* which of the two files hold bytes that do not deserialize
    mlast,          \* the last Memory operation, its arguments and its result
    raw_pending,    \* AUTO_LABELED_CSV as the characters the gate's csv.writer wrote
    raw_last,       \* the last write or read of raw_pending
    model_file,     \* MODEL_PATH (data/model.pkl)
    model_pipeline, \* model.model_pipeline, the Classifier of the running process
    scored,         \* the last training or scoring operation and its result
    urls_txt,       \* URLS_FILE (data/urls.txt), a line per url
    existing_urls,  \* run_harvester: the set existing_urls
    found_this_run, \* run_harvester: the set found_this_run
    lock,           \* run_harvester: the job that holds lock, or "free"
    jobs,           \* run_harvester: the position and the locals of every job
    harvest,        \* the harvester run: its position and what it loaded
    batch,          \* batch_learn.learn_from_file: its position and its loop
    session,        \* autonomous_learn.run_autonomous_session: position and counter
    proc            \* main.py: the position of the process

labelVars == <<pending, main, last>>
legacyVars == <<auto_csv, labeled_csv, legacyRan>>
memVars == <<memory, index_file, meta_file, damaged, mlast>>
csvVars == <<raw_pending, raw_last>>
clfVars == <<model_file, model_pipeline, scored>>
harvVars == <<urls_txt, existing_urls, found_this_run, lock, jobs, harvest>>
procVars == <<batch, session, proc>>
vars == <<pending, main, last, auto_csv, labeled_csv, legacyRan,
          memory, index_file, meta_file, damaged, mlast,
          raw_pending, raw_last, model_file, model_pipeline, scored,
          urls_txt, existing_urls, found_this_run, lock, jobs, harvest,
          batch, session, proc>>

----------------------------------------------------------------------------
(* Bounds and domains *)

MaxPending == 2

Texts == {"foo", "bar"}
Labels == {"A", "B"}
Confs == {0, 84, 85, 86, 100}

CONFIDENCE_THRESHOLD == 85

\* What can go wrong inside the gate's try block: nothing; open() raises;
\* writerow() raises after the header was written (a text the encoder
\* rejects); the buffered write fails when the file is closed.
WriteFaults == {"none", "open", "row", "flush"}

\* The faults that leave the pending file a header followed by records.
HeaderKeepingFaults == {"none", "open", "row"}

----------------------------------------------------------------------------
(* Sequences *)

InSeq(x, s) == \E i \in 1..Len(s) : s[i] = x

IndexOf(x, s) == CHOOSE i \in 1..Len(s) : s[i] = x

RECURSIVE KeepIdx(_, _, _)
\* The subsequence of s at the positions in keep, from position i on.
KeepIdx(s, keep, i) ==
    IF i > Len(s) THEN <<>>
    ELSE IF i \in keep THEN <<s[i]>> \o KeepIdx(s, keep, i + 1)
    ELSE KeepIdx(s, keep, i + 1)

RECURSIVE SeqsUpTo(_, _)
\* The sequences over S of length at most n.
SeqsUpTo(S, n) ==
    IF n = 0 THEN {<<>>}
    ELSE LET shorter == SeqsUpTo(S, n - 1)
         IN  shorter \cup {Append(s, x) : s \in shorter, x \in S}

----------------------------------------------------------------------------
(* Files and the pandas calls the merges make *)

NaN == ""

Header == <<"text", "label">>

NoFile == [exists |-> FALSE, lines |-> <<>>]

File(ls) == [exists |-> TRUE, lines |-> ls]

Frame(cs, rs) == [err |-> "none", cols |-> cs, rows |-> rs]

Raised(e) == [err |-> e, cols |-> <<>>, rows |-> <<>>]

\* pd.read_csv(path, on_bad_lines=...): the first line names the columns,
\* the others are the rows. A first row longer than the header gives its
\* leading cells to the index; a row longer than that is a bad line, which
\* raises ParserError or, with on_bad_lines='warn', is skipped; a shorter
\* row is filled with NaN.
read_csv(f, on_bad_lines) ==
    IF ~f.exists THEN Raised("FileNotFoundError")
    ELSE IF f.lines = <<>> THEN Raised("EmptyDataError")
    ELSE LET names == Head(f.lines)
             data == Tail(f.lines)
             lead == IF data # <<>> /\ Len(data[1]) > Len(names)
                     THEN Len(data[1]) - Len(names) ELSE 0
             bad == {i \in 1..Len(data) : Len(data[i]) > Len(names) + lead}
             good == KeepIdx(data, (1..Len(data)) \ bad, 1)
             row(l) == [j \in 1..Len(names) |->
                           IF lead + j <= Len(l) THEN l[lead + j] ELSE NaN]
         IN  IF bad # {} /\ on_bad_lines = "error" THEN Raised("ParserError")
             ELSE Frame(names, [i \in 1..Len(good) |-> row(good[i])])

\* DataFrame.empty
empty(df) == df.rows = <<>>

Cell(df, row, c) == IF InSeq(c, df.cols) THEN row[IndexOf(c, df.cols)] ELSE NaN

Reindex(df, cols) ==
    [i \in 1..Len(df.rows) |->
        [j \in 1..Len(cols) |-> Cell(df, df.rows[i], cols[j])]]

\* pd.concat([a, b]): a's columns, then b's new ones; a's rows, then b's.
concat(a, b) ==
    LET cols == a.cols \o SelectSeq(b.cols, LAMBDA c : ~InSeq(c, a.cols))
    IN  Frame(cols, Reindex(a, cols) \o Reindex(b, cols))

KeepLast(rows, k) ==
    {i \in 1..Len(rows) : ~\E j \in (i + 1)..Len(rows) : rows[j][k] = rows[i][k]}

KeepFirst(rows, k) ==
    {i \in 1..Len(rows) : ~\E j \in 1..(i - 1) : rows[j][k] = rows[i][k]}

\* DataFrame.drop_duplicates(subset=key, keep=...): KeyError without the column.
drop_duplicates(df, key, keep) ==
    IF ~InSeq(key, df.cols) THEN Raised("KeyError")
    ELSE LET k == IndexOf(key, df.cols)
             kept == IF keep = "last" THEN KeepLast(df.rows, k)
                     ELSE KeepFirst(df.rows, k)
         IN  Frame(df.cols, KeepIdx(df.rows, kept, 1))

\* DataFrame.to_csv(path, index=False)
to_csv(df) == File(<<df.cols>> \o df.rows)

\* The records of a file as read back: (text, label) of every row that has a text.
Records(f) ==
    LET df == read_csv(f, "error")
    IN  IF df.err # "none" \/ ~InSeq("text", df.cols) THEN {}
        ELSE {<<Cell(df, df.rows[i], "text"), Cell(df, df.rows[i], "label")>> :
                 i \in 1..Len(df.rows)}

DataRows(f) == IF f.lines = <<>> THEN 0
               ELSE IF Head(f.lines) = Header THEN Len(f.lines) - 1
               ELSE Len(f.lines)

----------------------------------------------------------------------------
(* The auto-label gate: model.py, maybe_auto_label *)

NoCall == [op |-> "none", text |-> "", label |-> "", conf |-> 0,
           fault |-> "none", outcome |-> "none", returned |-> "None",
           prev |-> "none"]

\* The record of a call: prev is how the call before it ended.
Call(op, outcome) ==
    [NoCall EXCEPT !.op = op, !.outcome = outcome, !.prev = last.outcome]

GateTooStrict(confidence) == confidence > CONFIDENCE_THRESHOLD

\* model.py:58
GateAccepts(confidence) == confidence >= CONFIDENCE_THRESHOLD

\* model.py:56-74 has no return statement: every path falls off the end of
\* the function, and the call evaluates to None.
GateReturns(confidence, fault) == "None"

\* The pending file after the try block of model.py:59-72. open(..., "a")
\* creates a missing file; the header goes first into a file that did not
\* exist; header and row reach the disk when the file is closed.
AppendRow(f, text, label, fault) ==
    LET old == IF f.exists THEN f.lines ELSE <<>>
        hdr == IF f.exists THEN <<>> ELSE <<Header>>
    IN  CASE fault = "open"  -> f
          [] fault = "flush" -> File(old)
          [] fault = "row"   -> File(old \o hdr)
          [] OTHER           -> File(old \o hdr \o << <<text, label>> >>)

maybe_auto_label(text, label, confidence, fault) ==
    /\ DataRows(pending) < MaxPending
    /\ GateAccepts(confidence) \/ fault = "none"
    /\ pending' = IF GateAccepts(confidence)
                  THEN AppendRow(pending, text, label, fault)
                  ELSE pending
    /\ last' = [op |-> "maybe_auto_label", text |-> text, label |-> label,
                conf |-> confidence, fault |-> fault,
                outcome |-> IF ~GateAccepts(confidence) THEN "too low"
                            ELSE IF fault = "none" THEN "saved" ELSE "failed",
                returned |-> GateReturns(confidence, fault),
                prev |-> last.outcome]
    /\ UNCHANGED <<main, legacyVars, csvVars, clfVars, memVars,
                       harvVars, procVars>>

----------------------------------------------------------------------------
(* The merges of the pending store into the main dataset *)

Merged(p, m, outcome) == [pending |-> p, main |-> m, outcome |-> outcome]

MergeFilesNoExistsCheck(p, m) ==
    LET labeled_df == read_csv(m, "warn")
        auto_df == read_csv(p, "warn")
        combined_df == drop_duplicates(concat(labeled_df, auto_df), "text", "last")
    IN  IF labeled_df.err # "none" THEN Merged(p, m, labeled_df.err)
        ELSE IF auto_df.err # "none" THEN Merged(p, m, auto_df.err)
        ELSE IF empty(auto_df) THEN Merged(NoFile, m, "emptied")
        ELSE IF combined_df.err # "none" THEN Merged(p, m, combined_df.err)
        ELSE Merged(NoFile, to_csv(combined_df), "merged")

\* merge_labeledcsv.py, merge_files: the two files and the outcome after the call.
MergeFiles(p, m) ==
    IF ~p.exists THEN Merged(p, m, "absent")
    ELSE
    LET labeled_df == read_csv(m, "warn")
        auto_df == read_csv(p, "warn")
        combined_df == drop_duplicates(concat(labeled_df, auto_df), "text", "last")
    IN  IF labeled_df.err # "none" THEN Merged(p, m, labeled_df.err)
        ELSE IF auto_df.err # "none" THEN Merged(p, m, auto_df.err)
        ELSE IF empty(auto_df) THEN Merged(NoFile, m, "emptied")
        ELSE IF combined_df.err # "none" THEN Merged(p, m, combined_df.err)
        ELSE Merged(NoFile, to_csv(combined_df), "merged")

\* curate_knowledge.py, merge_auto_labeled_data. An EmptyDataError, from
\* either read, removes the pending file (lines 41-44).
MergeAutoLabeledData(p, m) ==
    IF ~p.exists THEN Merged(p, m, "absent")
    ELSE
    LET auto_df == read_csv(p, "error")
        labeled_df == IF m.exists THEN read_csv(m, "error")
                      ELSE Frame(<<"text", "label", "confidence">>, <<>>)
        combined_df == drop_duplicates(concat(labeled_df, auto_df), "text", "last")
    IN  IF auto_df.err = "EmptyDataError" THEN Merged(NoFile, m, "EmptyDataError")
        ELSE IF auto_df.err # "none" THEN Merged(p, m, auto_df.err)
        ELSE IF empty(auto_df) THEN Merged(NoFile, m, "emptied")
        ELSE IF labeled_df.err = "EmptyDataError" THEN Merged(NoFile, m, "EmptyDataError")
        ELSE IF labeled_df.err # "none" THEN Merged(p, m, labeled_df.err)
        ELSE IF combined_df.err # "none" THEN Merged(p, m, combined_df.err)
        ELSE Merged(NoFile, to_csv(combined_df), "merged")

merge_files ==
    LET r == MergeFiles(pending, main)
    IN  /\ pending' = r.pending
        /\ main' = r.main
        /\ last' = Call("merge_files", r.outcome)
        /\ UNCHANGED <<legacyVars, csvVars, clfVars, memVars,
                       harvVars, procVars>>

merge_auto_labeled_data_and_train ==
    LET r == MergeAutoLabeledData(pending, main)
        classes == IF r.outcome = "merged" THEN <<"A", "B">> ELSE <<>>
    IN  /\ pending' = r.pending
        /\ main' = r.main
        /\ last' = Call("merge_auto_labeled_data", r.outcome)
        /\ model_file' = IF r.outcome = "merged"
                         THEN [exists |-> TRUE,
                               pipeline |-> [version |-> 1, kind |-> "proba",
                                             classes |-> classes]]
                         ELSE model_file
        /\ UNCHANGED <<model_pipeline, scored, legacyVars, memVars, csvVars,
                       harvVars, procVars>>

merge_auto_labeled_data ==
    LET r == MergeAutoLabeledData(pending, main)
    IN  /\ pending' = r.pending
        /\ main' = r.main
        /\ last' = Call("merge_auto_labeled_data", r.outcome)
        /\ UNCHANGED <<legacyVars, csvVars, clfVars, memVars,
                       harvVars, procVars>>

\* merge_files killed after to_csv (merge_labeledcsv.py:50-55) and before
\* os.remove (line 60): the main dataset is written, the pending file is
\* still there.
merge_files_killed ==
    LET r == MergeFiles(pending, main)
    IN  /\ r.outcome = "merged"
        /\ main' = r.main
        /\ last' = Call("merge_files", "killed")
        /\ UNCHANGED <<pending, legacyVars, memVars, csvVars, clfVars,
                       harvVars, procVars>>

\* merge_auto_labeled_data killed between curate_knowledge.py:37 and :40.
merge_auto_labeled_data_killed ==
    LET r == MergeAutoLabeledData(pending, main)
    IN  /\ r.outcome = "merged"
        /\ main' = r.main
        /\ last' = Call("merge_auto_labeled_data", "killed")
        /\ UNCHANGED <<pending, legacyVars, memVars, csvVars, clfVars,
                       harvVars, procVars>>

\* memory.py:55-65, run whenever memory.py is imported. Both reads raise on a
\* missing or empty file and nothing catches them; drop_duplicates keeps the
\* first occurrence (pandas' default); the pending file is not removed.
ModuleMerge(p, m) ==
    LET auto_df == read_csv(p, "error")
        labeled_df == read_csv(m, "error")
        combined_df == drop_duplicates(concat(labeled_df, auto_df), "text", "first")
    IN  IF auto_df.err # "none" THEN Merged(p, m, auto_df.err)
        ELSE IF labeled_df.err # "none" THEN Merged(p, m, labeled_df.err)
        ELSE IF combined_df.err # "none" THEN Merged(p, m, combined_df.err)
        ELSE Merged(p, to_csv(combined_df), "merged")

import_memory ==
    LET r == ModuleMerge(auto_csv, labeled_csv)
    IN  /\ auto_csv' = r.pending
        /\ labeled_csv' = r.main
        /\ legacyRan' = r.outcome
        /\ UNCHANGED <<labelVars, memVars, csvVars, clfVars,
                       harvVars, procVars>>

----------------------------------------------------------------------------
(* The vector memory: memory.py, class Memory *)

MaxEntries == 2

\* Memory(dim=4): the dimension the object is built with.
dim == 4

Urls == {"u1", "u2", "u3"}

\* embedder.py, embed_text, on the text scraped from each url, in tenths.
Embed ==
    [u \in Urls |-> IF u = "u1" THEN <<10, 0, 0, 0>>
                    ELSE IF u = "u2" THEN <<0, 10, 0, 0>>
                    ELSE <<9, 1, 0, 0>>]

QueryVectors == {<<10, 0, 0, 0>>, <<0, 10, 0, 0>>}

Min(a, b) == IF a <= b THEN a ELSE b

ndarray(data) == [kind |-> "ndarray", dtype |-> "float32", data |-> data]

\* What add() can be handed instead of a float vector of the right length.
Malformed ==
    { [kind |-> "list", dtype |-> "float32", data |-> <<10, 0, 0, 0>>],
      [kind |-> "ndarray", dtype |-> "str", data |-> <<10, 0, 0, 0>>],
      ndarray(<<10, 0, 0>>),
      ndarray(<<10, 0, 0, 0, 0>>) }

\* faiss.IndexFlatL2(d): d, ntotal and the ntotal * d stored coordinates.
IndexFlatL2(d) == [d |-> d, ntotal |-> 0, xb |-> <<>>]

\* The i-th stored vector, i from 0.
Vector(index, i) == SubSeq(index.xb, i * index.d + 1, (i + 1) * index.d)

NoMemory == [pc |-> "none", index |-> IndexFlatL2(dim), metadata |-> <<>>]

NoIndexFile == [exists |-> FALSE, index |-> IndexFlatL2(dim)]

NoMetaFile == [exists |-> FALSE, list |-> <<>>]

NoOp == [op |-> "none", arg |-> ndarray(<<>>), k |-> 0, outcome |-> "none",
         records |-> <<>>, labels |-> <<>>, prev |-> "none"]

MCall(op, outcome) ==
    [NoOp EXCEPT !.op = op, !.outcome = outcome, !.prev = mlast.op]

LoadIndexAlwaysNew(f) == IndexFlatL2(dim)

\* memory.py:14-19
LoadIndex(f) == IF f.exists THEN f.index ELSE IndexFlatL2(dim)

\* memory.py:21-25
LoadMetadata(f) == IF f.exists THEN f.list ELSE <<>>

Constructed(mem, outcome) == [memory |-> mem, outcome |-> outcome]

ConstructWithFallback(ifile, mfile, dmg) ==
    Constructed([pc |-> "ready",
                 index |-> IF "index" \in dmg THEN IndexFlatL2(dim) ELSE LoadIndex(ifile),
                 metadata |-> IF "metadata" \in dmg THEN <<>> ELSE LoadMetadata(mfile)],
                "none")

\* Memory(), memory.py:9-25, on the files ifile and mfile. faiss.read_index
\* (line 16) and pickle.load (line 23) raise on bytes that are no index and
\* no pickle; nothing in __init__ catches, so no object is made.
Construct(ifile, mfile, dmg) ==
    IF ifile.exists /\ "index" \in dmg THEN Constructed(NoMemory, "RuntimeError")
    ELSE IF mfile.exists /\ "metadata" \in dmg
    THEN Constructed(NoMemory, "UnpicklingError")
    ELSE Constructed([pc |-> "ready", index |-> LoadIndex(ifile),
                      metadata |-> LoadMetadata(mfile)], "none")

\* Memory.__init__, memory.py:9-25
Memory_init ==
    LET r == Construct(index_file, meta_file, damaged)
    IN  /\ memory.pc # "saving"
        /\ memory' = r.memory
        /\ mlast' = MCall("__init__", r.outcome)
    /\ UNCHANGED <<damaged, index_file, meta_file, labelVars, legacyVars, csvVars, clfVars,
                       harvVars, procVars>>

AddOutcome(mem, outcome) == [memory |-> mem, outcome |-> outcome]

AddUnchecked(mem, x, meta) ==
    AddOutcome([mem EXCEPT !.index.ntotal = @ + 1,
                           !.index.xb = @ \o x.data,
                           !.metadata = Append(@, meta)], "none")

AddEvicting(mem, x, meta) ==
    AddOutcome([mem EXCEPT !.index.ntotal = 1,
                           !.index.xb = x.data,
                           !.metadata = <<meta>>], "none")

\* Memory.add, memory.py:27-33. np.array(..., dtype=np.float32) raises on
\* what is no number, index.add on a vector that is not index.d long; the
\* metadata is appended after both.
Add(mem, x, meta) ==
    IF x.kind # "ndarray" THEN AddOutcome(mem, "TypeError")
    ELSE IF x.dtype # "float32" THEN AddOutcome(mem, "ValueError")
    ELSE IF Len(x.data) # mem.index.d THEN AddOutcome(mem, "AssertionError")
    ELSE AddOutcome([mem EXCEPT !.index.ntotal = @ + 1,
                                !.index.xb = @ \o x.data,
                                !.metadata = Append(@, meta)], "none")

add(x, meta) ==
    LET r == Add(memory, x, meta)
    IN  /\ memory.pc = "ready"
        /\ memory.index.ntotal < MaxEntries
        /\ memory' = r.memory
        /\ mlast' = [MCall("add", r.outcome) EXCEPT !.arg = x]
        /\ UNCHANGED <<damaged, index_file, meta_file, labelVars, legacyVars, csvVars, clfVars,
                       harvVars, procVars>>

\* Squared Euclidean distance
L2(a, b) ==
    LET sq[i \in 0..Len(a)] ==
            IF i = 0 THEN 0 ELSE sq[i - 1] + (a[i] - b[i]) * (a[i] - b[i])
    IN  sq[Len(a)]

RECURSIVE Nearest(_, _, _)
\* The labels in todo by ascending distance to v, the lower label first
\* among equals.
Nearest(index, v, todo) ==
    IF todo = {} THEN <<>>
    ELSE LET best == CHOOSE i \in todo : \A j \in todo :
                         \/ L2(Vector(index, i), v) < L2(Vector(index, j), v)
                         \/ /\ L2(Vector(index, i), v) = L2(Vector(index, j), v)
                            /\ i <= j
         IN  <<best>> \o Nearest(index, v, todo \ {best})

\* index.search(v, k): k labels, nearest first, -1 where there is no match.
Search(index, v, k) ==
    LET found == Nearest(index, v, 0..(index.ntotal - 1))
    IN  [i \in 1..k |-> IF i <= Len(found) THEN found[i] ELSE -1]

\* Memory.query, memory.py:35-43. metadata[i] raises IndexError for an i
\* that is not below len(metadata).
Query(mem, v, k) ==
    IF mem.index.ntotal = 0
    THEN [outcome |-> "none", records |-> <<>>, labels |-> <<>>]
    ELSE LET labels == SelectSeq(Search(mem.index, v, k), LAMBDA i : i # -1)
             n == Len(mem.metadata)
         IN  IF \E j \in 1..Len(labels) : labels[j] >= n
             THEN [outcome |-> "IndexError", records |-> <<>>, labels |-> labels]
             ELSE [outcome |-> "none", labels |-> labels,
                   records |-> [j \in 1..Len(labels) |-> mem.metadata[labels[j] + 1]]]

query(v, k) ==
    LET r == Query(memory, v, k)
    IN  /\ memory.pc = "ready"
        /\ mlast' = [MCall("query", r.outcome) EXCEPT
                        !.arg = ndarray(v), !.k = k, !.records = r.records,
                        !.labels = r.labels]
        /\ UNCHANGED <<damaged, memory, index_file, meta_file, labelVars, legacyVars, csvVars, clfVars,
                       harvVars, procVars>>

\* Memory.save, memory.py:47-48: faiss.write_index
save_index ==
    /\ memory.pc = "ready"
    /\ index_file' = [exists |-> TRUE, index |-> memory.index]
    /\ damaged' = damaged \ {"index"}
    /\ memory' = [memory EXCEPT !.pc = "saving"]
    /\ UNCHANGED <<meta_file, mlast, labelVars, legacyVars, csvVars, clfVars,
                       harvVars, procVars>>

\* Memory.save, memory.py:50-53: pickle.dump
save_metadata ==
    /\ memory.pc = "saving"
    /\ meta_file' = [exists |-> TRUE, list |-> memory.metadata]
    /\ damaged' = damaged \ {"metadata"}
    /\ memory' = [memory EXCEPT !.pc = "ready"]
    /\ mlast' = MCall("save", "none")
    /\ UNCHANGED <<index_file, labelVars, legacyVars, csvVars, clfVars,
                       harvVars, procVars>>

\* The process is interrupted or killed between the two writes of save().
interrupt_save ==
    /\ memory.pc = "saving"
    /\ memory' = NoMemory
    /\ mlast' = MCall("interrupt", "none")
    /\ UNCHANGED <<damaged, index_file, meta_file, labelVars, legacyVars, csvVars, clfVars,
                       harvVars, procVars>>

----------------------------------------------------------------------------
(* The pending store as characters: what csv.writer puts into the file in  *)
(* the gate and what the parser of pd.read_csv makes of it in the merges.  *)
(* A character is a string; "a", "A", "text" stand for runs of characters  *)
(* that mean nothing to a CSV dialect.                                     *)

MaxTextLen == 3

MaxRawRows == 1

quotechar == "QUOTE"

escapechar == "BACKSLASH"

delimiter == "COMMA"

lineterminator == "NEWLINE"

Alphabet == {"a", quotechar, escapechar, delimiter}

\* The texts the scrapers hand to the gate: not empty.
RawTexts == SeqsUpTo(Alphabet, MaxTextLen) \ {<<>>}

RawLabels == {<<"A">>, <<"B">>}

\* model.py:63, f.write("text,label\n")
RawHeader == <<"text", delimiter, "label", lineterminator>>

NoRawFile == [exists |-> FALSE, chars |-> <<>>]

NoRawOp == [op |-> "none", written |-> <<>>, err |-> "none", records |-> <<>>]

\* csv.writer with the default dialect quotes a field that holds the
\* delimiter, the quote character or a line end.
NeedsQuotes(field) ==
    \E i \in 1..Len(field) : field[i] \in {delimiter, quotechar, lineterminator}

RECURSIVE DoubleQuotes(_)
DoubleQuotes(field) ==
    IF field = <<>> THEN <<>>
    ELSE (IF Head(field) = quotechar THEN <<quotechar, quotechar>>
          ELSE <<Head(field)>>) \o DoubleQuotes(Tail(field))

WriteField(field) ==
    IF NeedsQuotes(field) THEN <<quotechar>> \o DoubleQuotes(field) \o <<quotechar>>
    ELSE field

\* model.py:67-68, csv.writer(f).writerow([text, label])
writerow(text, label) ==
    WriteField(text) \o <<delimiter>> \o WriteField(label) \o <<lineterminator>>

\* model.py:58-72 on the characters, for a confidence the gate accepts and
\* a write that succeeds.
gate_writerow(text, label) ==
    /\ Len(raw_last.written) < MaxRawRows
    /\ raw_pending' = [exists |-> TRUE,
                       chars |-> (IF raw_pending.exists THEN raw_pending.chars
                                  ELSE RawHeader) \o writerow(text, label)]
    /\ raw_last' = [NoRawOp EXCEPT !.op = "writerow",
                                   !.written = Append(raw_last.written, <<text, label>>)]
    /\ UNCHANGED <<labelVars, legacyVars, memVars, clfVars,
                       harvVars, procVars>>

ParserState(st, field, record, records) ==
    [st |-> st, field |-> field, record |-> record, records |-> records]

\* One character through the tokenizer of read_csv(quoting=csv.QUOTE_ALL,
\* escapechar='\\'): the quote character opens and closes a quoted field and
\* is doubled inside one; the escape character takes the next character,
\* whatever it is, into the field.
ParserStep(s, c) ==
    LET push == [s EXCEPT !.field = Append(@, c)]
        endField == [s EXCEPT !.field = <<>>, !.record = Append(@, s.field),
                              !.st = "START_FIELD"]
        endRecord == [s EXCEPT !.field = <<>>, !.record = <<>>,
                               !.records = Append(@, Append(s.record, s.field)),
                               !.st = "START_FIELD"]
    IN  CASE s.st = "START_FIELD" ->
                 IF c = lineterminator
                 THEN (IF s.record = <<>> THEN s ELSE endRecord)
                 ELSE IF c = quotechar THEN [s EXCEPT !.st = "IN_QUOTED_FIELD"]
                 ELSE IF c = escapechar THEN [s EXCEPT !.st = "ESCAPED_CHAR"]
                 ELSE IF c = delimiter THEN endField
                 ELSE [push EXCEPT !.st = "IN_FIELD"]
          [] s.st = "ESCAPED_CHAR" -> [push EXCEPT !.st = "IN_FIELD"]
          [] s.st = "IN_FIELD" ->
                 IF c = lineterminator THEN endRecord
                 ELSE IF c = escapechar THEN [s EXCEPT !.st = "ESCAPED_CHAR"]
                 ELSE IF c = delimiter THEN endField
                 ELSE push
          [] s.st = "IN_QUOTED_FIELD" ->
                 IF c = escapechar THEN [s EXCEPT !.st = "ESCAPE_IN_QUOTED_FIELD"]
                 ELSE IF c = quotechar THEN [s EXCEPT !.st = "QUOTE_IN_QUOTED_FIELD"]
                 ELSE push
          [] s.st = "ESCAPE_IN_QUOTED_FIELD" -> [push EXCEPT !.st = "IN_QUOTED_FIELD"]
          [] OTHER ->
                 IF c = quotechar THEN [push EXCEPT !.st = "IN_QUOTED_FIELD"]
                 ELSE IF c = delimiter THEN endField
                 ELSE IF c = lineterminator THEN endRecord
                 ELSE [push EXCEPT !.st = "IN_FIELD"]

RECURSIVE Tokenize(_, _)
Tokenize(chars, s) ==
    IF chars = <<>> THEN s ELSE Tokenize(Tail(chars), ParserStep(s, Head(chars)))

\* The records read_csv finds in the characters, the header first. At the
\* end of the file inside a quoted field or after the escape character the
\* C engine raises ParserError and the python engine closes the record.
ParseCsv(chars, engine) ==
    LET s == Tokenize(chars, ParserState("START_FIELD", <<>>, <<>>, <<>>))
        open == s.st \in {"IN_QUOTED_FIELD", "ESCAPE_IN_QUOTED_FIELD", "ESCAPED_CHAR"}
        rest == IF s.st = "START_FIELD" /\ s.record = <<>> THEN <<>>
                ELSE <<Append(s.record, s.field)>>
    IN  IF open /\ engine = "c" THEN [err |-> "ParserError", records |-> <<>>]
        ELSE [err |-> "none", records |-> s.records \o rest]

\* The read of the pending file at the head of a merge:
\* merge_labeledcsv.py:32-38 (engine='python'), curate_knowledge.py:24.
read_pending(engine) ==
    LET r == ParseCsv(raw_pending.chars, engine)
    IN  /\ raw_pending.exists
        /\ raw_last' = [raw_last EXCEPT !.op = "read_csv", !.err = r.err,
                                        !.records = r.records]
        /\ UNCHANGED <<raw_pending, labelVars, legacyVars, memVars, clfVars,
                       harvVars, procVars>>

----------------------------------------------------------------------------
(* The classifier: learn.py (train_model) writes the model artifact,       *)
(* model.py (Classifier, predict_with_confidence) loads it and scores.     *)
(* Probabilities, margins and confidences are in hundredths.               *)

MaxTrains == 2

\* learn.py:35
MinExamples == 10

TrainTexts == <<"t1", "t2", "t3", "t4", "t5", "t6", "t7", "t8", "t9", "t10">>

\* The labels in the order sorted() gives them, as in classes_.
LabelOrder == <<"A", "B", "C">>

\* A float: a number of hundredths, or NaN.
Float(v) == [nan |-> FALSE, v |-> v]

FloatNaN == [nan |-> TRUE, v |-> 0]

\* a >= b on floats: False when a is NaN.
FloatGE(a, b) == ~a.nan /\ a.v >= b

\* self.pipeline = None
NoPipeline == [version |-> 0, kind |-> "None", classes |-> <<>>]

NoModelFile == [exists |-> FALSE, pipeline |-> NoPipeline]

\* No process has imported model.py yet.
NoClassifier == [pc |-> "none", pipeline |-> NoPipeline]

NoScore == [op |-> "none", text |-> "", raw |-> <<>>, outcome |-> "none",
            label |-> "", conf |-> Float(0), version |-> 0]

Score(outcome, label, conf) == [outcome |-> outcome, label |-> label, conf |-> conf]

\* Classifier(), model.py:15-25, on a fresh interpreter: the pipeline is
\* read from MODEL_PATH if the file is there, and is None otherwise.
Classifier(mf) ==
    [pc |-> "ready", pipeline |-> IF mf.exists THEN mf.pipeline ELSE NoPipeline]

\* model.py:50, model_pipeline = Classifier(), run when a process first
\* imports model.py. Every later Classifier() of the process returns this
\* object as it is (model.py:9-17).
import_model ==
    /\ model_pipeline' = Classifier(model_file)
    /\ scored' = [NoScore EXCEPT !.op = "import",
                                 !.version = model_pipeline'.pipeline.version]
    /\ UNCHANGED <<model_file, labelVars, legacyVars, memVars, csvVars,
                       harvVars, procVars>>

\* What predict_proba (a probability per class) or decision_function (one
\* margin for two classes, a margin per class for more) may answer.
ProbaOutputs(n) ==
    IF n = 2 THEN {<<50, 50>>, <<10, 90>>, <<100, 0>>}
    ELSE {<<34, 33, 33>>, <<5, 90, 5>>, <<0, 4, 96>>}

DecisionOutputs(n) ==
    IF n = 2 THEN {<<-5>>, <<0>>, <<7>>}
    ELSE {<<-3, 2, 1>>, <<0, 0, 0>>, <<4, 4, 4>>, <<-2, -2, 5>>}

Outputs(pipeline) ==
    CASE pipeline.kind = "proba" -> ProbaOutputs(Len(pipeline.classes))
      [] pipeline.kind = "margin" -> DecisionOutputs(Len(pipeline.classes))
      [] OTHER -> {<<>>}

SeqMin(s) == CHOOSE x \in {s[i] : i \in 1..Len(s)} : \A i \in 1..Len(s) : x <= s[i]

SeqMax(s) == CHOOSE x \in {s[i] : i \in 1..Len(s)} : \A i \in 1..Len(s) : x >= s[i]

\* ndarray.argmax(): the first position of the maximum (from 1 here); the
\* first NaN when there is one.
ArgMax(probs) ==
    IF \E i \in 1..Len(probs) : probs[i].nan
    THEN CHOOSE i \in 1..Len(probs) :
             probs[i].nan /\ \A j \in 1..(i - 1) : ~probs[j].nan
    ELSE CHOOSE i \in 1..Len(probs) :
             /\ \A j \in 1..Len(probs) : probs[j].v <= probs[i].v
             /\ \A j \in 1..(i - 1) : probs[j].v < probs[i].v

\* model.py:39, (decision_values - min) / (max - min): 0/0 is NaN in numpy.
MinMax(decision_values) ==
    LET lo == SeqMin(decision_values)
        hi == SeqMax(decision_values)
    IN  [i \in 1..Len(decision_values) |->
            IF hi = lo THEN FloatNaN
            ELSE Float(((decision_values[i] - lo) * 100) \div (hi - lo))]

PredictWithoutModelCheck(self, raw) ==
    IF self.pipeline = NoPipeline THEN Score("AttributeError", "", Float(0))
    ELSE LET best == ArgMax([i \in 1..Len(raw) |-> Float(raw[i])])
         IN  Score("none", self.pipeline.classes[best], Float(raw[best]))

\* Classifier.predict, model.py:27-45. raw is what the pipeline answers for
\* the text; a decision_function answer of one element stands for the
\* scalar, of shape (), that decision_function(...)[0] is with two classes.
\* For it line 41 runs: np is no name of model.py (lines 1-3).
Predict(self, raw) ==
    IF self.pipeline = NoPipeline THEN Score("none", "unclassified", Float(0))
    ELSE IF self.pipeline.kind = "proba"
    THEN LET best == ArgMax([i \in 1..Len(raw) |-> Float(raw[i])])
         IN  Score("none", self.pipeline.classes[best], Float(raw[best]))
    ELSE IF Len(raw) > 1
    THEN LET probs == MinMax(raw)
             best == ArgMax(probs)
         IN  Score("none", self.pipeline.classes[best], probs[best])
    ELSE Score("NameError", "", Float(0))

\* predict_with_confidence, model.py:52-54
predict_with_confidence(text, raw) ==
    LET r == Predict(model_pipeline, raw)
    IN  /\ model_pipeline.pc = "ready"
        /\ raw \in Outputs(model_pipeline.pipeline)
        /\ scored' = [op |-> "predict", text |-> text, raw |-> raw,
                      outcome |-> r.outcome, label |-> r.label, conf |-> r.conf,
                      version |-> model_pipeline.pipeline.version]
        /\ UNCHANGED <<model_file, model_pipeline, labelVars, legacyVars,
                       memVars, csvVars,
                       harvVars, procVars>>

\* get_top_predictions, curate_knowledge.py:50-72: model_pipeline is the
\* Classifier object, which has no predict_proba; the AttributeError is
\* caught at line 70 and the answer is ([], None).
GetTopPredictions(self, text) == [predictions |-> <<>>, suggested_label |-> "None"]

get_top_predictions(text) ==
    LET r == GetTopPredictions(model_pipeline, text)
    IN  /\ model_pipeline.pc = "ready"
        /\ scored' = [NoScore EXCEPT !.op = "get_top_predictions", !.text = text,
                                     !.raw = r.predictions,
                                     !.label = r.suggested_label,
                                     !.version = model_pipeline.pipeline.version]
        /\ UNCHANGED <<model_file, model_pipeline, labelVars, legacyVars,
                       memVars, csvVars,
                       harvVars, procVars>>

Trained(mf, outcome) == [model_file |-> mf, outcome |-> outcome]

\* train_model, learn.py:19-129, on the main dataset m and the artifact mf.
\* kind is the estimator the grid search finds best: LogisticRegression
\* (predict_proba) or LinearSVC (decision_function only).
TrainModel(m, mf, kind) ==
    LET df == read_csv(m, "warn")
        usable == IF df.err # "none" THEN {}
                  ELSE {i \in 1..Len(df.rows) :
                           /\ Cell(df, df.rows[i], "text") # NaN
                           /\ Cell(df, df.rows[i], "label") # NaN}
        labels == {Cell(df, df.rows[i], "label") : i \in usable}
        classes == SelectSeq(LabelOrder, LAMBDA l : l \in labels)
    IN  IF df.err # "none" THEN Trained(mf, df.err)
        ELSE IF ~(InSeq("text", df.cols) /\ InSeq("label", df.cols))
        THEN Trained(mf, "KeyError")
        ELSE IF Cardinality(usable) < MinExamples THEN Trained(mf, "not enough data")
        ELSE IF Len(classes) < 2 THEN Trained(mf, "ValueError")
        ELSE Trained([exists |-> TRUE,
                      pipeline |-> [version |-> mf.pipeline.version + 1,
                                    kind |-> kind, classes |-> classes]],
                     "saved")

train_model(kind) ==
    LET r == TrainModel(main, model_file, kind)
    IN  /\ model_file.pipeline.version < MaxTrains
        /\ model_file' = r.model_file
        /\ scored' = [NoScore EXCEPT !.op = "train_model", !.outcome = r.outcome,
                                     !.version = r.model_file.pipeline.version]
        /\ UNCHANGED <<model_pipeline, labelVars, legacyVars, memVars, csvVars,
                       harvVars, procVars>>

\* run_curation_session, curate_knowledge.py:75-200. A url is labeled only
\* past line 116, that is when get_top_predictions gave predictions for its
\* text; lines 175-196 merge and retrain when a url was labeled and the
\* session is autonomous or the user answers y.
run_curation_session(autonomous_mode, retrain_choice, kind) ==
    LET session_labeled_count ==
            Cardinality({t \in Texts :
                GetTopPredictions(model_pipeline, t).predictions # <<>>})
        retrain == /\ session_labeled_count > 0
                   /\ autonomous_mode \/ retrain_choice = "y"
        merged == MergeAutoLabeledData(pending, main)
        trained == TrainModel(merged.main, model_file, kind)
    IN  /\ model_pipeline.pc = "ready"
        /\ model_file.pipeline.version < MaxTrains
        /\ pending' = IF retrain THEN merged.pending ELSE pending
        /\ main' = IF retrain THEN merged.main ELSE main
        /\ model_file' = IF retrain THEN trained.model_file ELSE model_file
        /\ scored' = [NoScore EXCEPT
                         !.op = "run_curation_session",
                         !.outcome = IF retrain THEN trained.outcome
                                     ELSE "no new knowledge",
                         !.version = model_file'.pipeline.version]
        /\ UNCHANGED <<last, model_pipeline, legacyVars, memVars, csvVars,
                       harvVars, procVars>>

----------------------------------------------------------------------------
(* The harvester: get_wikipedia_urls.py, run_harvester and the jobs of its *)
(* thread pool. URLS_FILE is the sequence of its lines. The pool has five  *)
(* workers (line 161) and a job per topic: with no more than five topics   *)
(* every job runs from the start, and a job moves a statement at a time.   *)

Topics == {"t1", "t2"}

HarvestUrls == {"x", "y", "z"}

\* The url files an earlier run left.
UrlFiles == {<<>>, <<"z">>}

Range(s) == {s[i] : i \in 1..Len(s)}

\* list(S) for a set S: its elements once each, in any order.
Enumerations(S) ==
    {s \in SeqsUpTo(S, Cardinality(S)) : Len(s) = Cardinality(S) /\ Range(s) = S}

NoJob == [pc |-> "none", links |-> {}, new_links |-> {}, validated |-> <<>>,
          final |-> <<>>]

NoHarvest == [pc |-> "none", loaded |-> {}, lines |-> 0]

\* load_existing_urls, get_wikipedia_urls.py:108-116
LoadExistingUrls(f) == Range(f)

\* append_urls, get_wikipedia_urls.py:118-124: an IOError of open() is
\* printed and nothing is written.
AppendUrls(f, urls_to_add, fault) ==
    IF fault = "IOError" THEN f ELSE f \o urls_to_add

\* run_harvester, get_wikipedia_urls.py:134-143 and 161-162
run_harvester ==
    /\ harvest.pc = "none"
    /\ existing_urls' = LoadExistingUrls(urls_txt)
    /\ found_this_run' = {}
    /\ lock' = "free"
    /\ jobs' = [t \in Topics |-> [NoJob EXCEPT !.pc = "search"]]
    /\ harvest' = [pc |-> "running", loaded |-> LoadExistingUrls(urls_txt),
                   lines |-> Len(urls_txt)]
    /\ UNCHANGED <<urls_txt, labelVars, legacyVars, memVars, csvVars, clfVars,
                   procVars>>

\* job, line 146: search_topic answers the valid links of the topic.
job_search(t, links) ==
    /\ jobs[t].pc = "search"
    /\ jobs' = [jobs EXCEPT ![t].pc = "filter", ![t].links = links]
    /\ UNCHANGED <<urls_txt, existing_urls, found_this_run, lock, harvest,
                   labelVars, legacyVars, memVars, csvVars, clfVars, procVars>>

\* job, lines 147-149, outside the lock
job_filter(t) ==
    LET new_links == {link \in jobs[t].links :
                         link \notin existing_urls /\ link \notin found_this_run}
    IN  /\ jobs[t].pc = "filter"
        /\ jobs' = [jobs EXCEPT ![t].pc = IF new_links = {} THEN "done" ELSE "validate",
                                ![t].new_links = new_links]
        /\ UNCHANGED <<urls_txt, existing_urls, found_this_run, lock, harvest,
                       labelVars, legacyVars, memVars, csvVars, clfVars, procVars>>

\* job, lines 151-152: validated is the list of the new links whose content
\* validate_content accepts.
job_validate(t, validated) ==
    /\ jobs[t].pc = "validate"
    /\ Range(validated) \subseteq jobs[t].new_links
    /\ jobs' = [jobs EXCEPT ![t].pc = IF validated = <<>> THEN "done" ELSE "acquire",
                            ![t].validated = validated]
    /\ UNCHANGED <<urls_txt, existing_urls, found_this_run, lock, harvest,
                   labelVars, legacyVars, memVars, csvVars, clfVars, procVars>>

job_acquire_unlocked(t) ==
    /\ jobs[t].pc = "acquire"
    /\ lock' = t
    /\ jobs' = [jobs EXCEPT ![t].pc = "final"]
    /\ UNCHANGED <<urls_txt, existing_urls, found_this_run, harvest,
                   labelVars, legacyVars, memVars, csvVars, clfVars, procVars>>

\* job, line 153: with lock
job_acquire(t) ==
    /\ jobs[t].pc = "acquire"
    /\ lock = "free"
    /\ lock' = t
    /\ jobs' = [jobs EXCEPT ![t].pc = "final"]
    /\ UNCHANGED <<urls_txt, existing_urls, found_this_run, harvest,
                   labelVars, legacyVars, memVars, csvVars, clfVars, procVars>>

job_final_unchecked(t) ==
    /\ jobs[t].pc = "final"
    /\ jobs' = [jobs EXCEPT ![t].pc = "append", ![t].final = jobs[t].validated]
    /\ UNCHANGED <<urls_txt, existing_urls, found_this_run, lock, harvest,
                   labelVars, legacyVars, memVars, csvVars, clfVars, procVars>>

\* job, lines 154-155, under the lock
job_final(t) ==
    LET final == SelectSeq(jobs[t].validated, LAMBDA u : u \notin found_this_run)
    IN  /\ jobs[t].pc = "final"
        /\ jobs' = [jobs EXCEPT ![t].pc = IF final = <<>> THEN "release" ELSE "append",
                                ![t].final = final]
        /\ UNCHANGED <<urls_txt, existing_urls, found_this_run, lock, harvest,
                       labelVars, legacyVars, memVars, csvVars, clfVars, procVars>>

\* job, line 156
job_append(t, fault) ==
    /\ jobs[t].pc = "append"
    /\ urls_txt' = AppendUrls(urls_txt, jobs[t].final, fault)
    /\ jobs' = [jobs EXCEPT ![t].pc = "found"]
    /\ UNCHANGED <<existing_urls, found_this_run, lock, harvest,
                   labelVars, legacyVars, memVars, csvVars, clfVars, procVars>>

\* job, line 157
job_update_found(t) ==
    /\ jobs[t].pc = "found"
    /\ found_this_run' = found_this_run \cup Range(jobs[t].final)
    /\ jobs' = [jobs EXCEPT ![t].pc = "existing"]
    /\ UNCHANGED <<urls_txt, existing_urls, lock, harvest,
                   labelVars, legacyVars, memVars, csvVars, clfVars, procVars>>

\* job, lines 158-159
job_update_existing(t) ==
    /\ jobs[t].pc = "existing"
    /\ existing_urls' = existing_urls \cup Range(jobs[t].final)
    /\ jobs' = [jobs EXCEPT ![t].pc = "release"]
    /\ UNCHANGED <<urls_txt, found_this_run, lock, harvest,
                   labelVars, legacyVars, memVars, csvVars, clfVars, procVars>>

\* job, the end of the with block of line 153
job_release(t) ==
    /\ jobs[t].pc = "release"
    /\ lock' = "free"
    /\ jobs' = [jobs EXCEPT ![t].pc = "done"]
    /\ UNCHANGED <<urls_txt, existing_urls, found_this_run, harvest,
                   labelVars, legacyVars, memVars, csvVars, clfVars, procVars>>

\* run_harvester, lines 161-164: the pool is left when every job is over.
harvester_finished ==
    /\ harvest.pc = "running"
    /\ \A t \in Topics : jobs[t].pc = "done"
    /\ harvest' = [harvest EXCEPT !.pc = "finished"]
    /\ UNCHANGED <<urls_txt, existing_urls, found_this_run, lock, jobs,
                   labelVars, legacyVars, memVars, csvVars, clfVars, procVars>>

----------------------------------------------------------------------------
(* The programs: batch_learn.py, autonomous_learn.py and main.py *)

MaxBatchUrls == 2

\* The url lists batch learning reads from URLS_FILE.
BatchUrlFiles == SeqsUpTo(Urls, MaxBatchUrls)

\* What the batch may find of an earlier run: nothing, or a saved store of
\* one entry.
SavedIndex(us) ==
    [exists |-> TRUE,
     index |-> [d |-> dim, ntotal |-> Len(us),
                xb |-> IF us = <<>> THEN <<>> ELSE Embed[us[1]]]]

SavedMeta(us) == [exists |-> TRUE, list |-> us]

\* The two csv files the merge at the end of memory.py reads when
\* batch_learn.py or main.py import memory.
ImportFiles == {NoFile, File(<<Header, <<"foo", "A">> >>)}

NoBatch == [pc |-> "none", urls |-> <<>>, i |-> 0, interrupted |-> "no",
            index0 |-> IndexFlatL2(dim), metadata0 |-> <<>>]

\* The loop of batch_learn.py:36 goes to the next url, or is over.
NextUrl(b) ==
    [b EXCEPT !.i = @ + 1,
              !.pc = IF b.i < Len(b.urls) THEN "scrape" ELSE "save_index"]

\* batch_learn.py:9, from memory import Memory, in a fresh process: the
\* merge at the end of memory.py runs.
import_batch_learn == batch.pc = "none" /\ legacyRan = "none" /\ import_memory

\* learn_from_file, batch_learn.py:19-34, in a process whose import of
\* memory (line 9) went through: the urls are read, and Memory() loads
\* the store.
learn_from_file ==
    /\ batch.pc = "none"
    /\ legacyRan = "merged"
    /\ batch' = IF urls_txt = <<>> THEN [NoBatch EXCEPT !.pc = "returned"]
                ELSE IF Construct(index_file, meta_file, damaged).outcome # "none"
                THEN [NoBatch EXCEPT !.pc = "raised"]
                ELSE [pc |-> "scrape", urls |-> urls_txt, i |-> 1,
                      interrupted |-> "no",
                      index0 |-> LoadIndex(index_file),
                      metadata0 |-> LoadMetadata(meta_file)]
    /\ memory' = IF urls_txt = <<>> THEN memory
                 ELSE Construct(index_file, meta_file, damaged).memory
    /\ mlast' = IF urls_txt = <<>> THEN mlast
                ELSE MCall("__init__", Construct(index_file, meta_file, damaged).outcome)
    /\ UNCHANGED <<index_file, meta_file, damaged, session, proc, labelVars, legacyVars,
                   csvVars, clfVars, harvVars>>

\* batch_learn.py:41-51: the url is scraped, the text scored, handed to the
\* gate and embedded. Without a text the loop continues (line 44); an
\* exception of the scorer is printed (line 66).
batch_item(outcome, label, confidence, fault) ==
    /\ batch.pc = "scrape"
    /\ outcome = "text" \/ (confidence = 0 /\ fault = "none")
    /\ GateAccepts(confidence) \/ fault = "none"
    /\ pending' = IF outcome = "text" /\ GateAccepts(confidence)
                  THEN AppendRow(pending, batch.urls[batch.i], label, fault)
                  ELSE pending
    /\ batch' = CASE outcome = "no text" -> NextUrl(batch)
                  [] outcome = "Exception" -> [batch EXCEPT !.pc = "estimate"]
                  [] OTHER -> [batch EXCEPT !.pc = "index_add"]
    /\ UNCHANGED <<main, last, session, proc, legacyVars, memVars, csvVars,
                   clfVars, harvVars>>

\* batch_learn.py:60, Memory.add, memory.py:32: the vector goes into the index
batch_index_add ==
    /\ batch.pc = "index_add"
    /\ memory' = [memory EXCEPT !.index.ntotal = @ + 1,
                                !.index.xb = @ \o Embed[batch.urls[batch.i]]]
    /\ batch' = [batch EXCEPT !.pc = "metadata_append"]
    /\ UNCHANGED <<damaged, index_file, meta_file, mlast, session, proc, labelVars,
                   legacyVars, csvVars, clfVars, harvVars>>

\* batch_learn.py:60, Memory.add, memory.py:33: the metadata goes into the list
batch_metadata_append ==
    /\ batch.pc = "metadata_append"
    /\ memory' = [memory EXCEPT !.metadata = Append(@, batch.urls[batch.i])]
    /\ mlast' = [MCall("add", "none") EXCEPT !.arg = ndarray(Embed[batch.urls[batch.i]])]
    /\ batch' = [batch EXCEPT !.pc = "estimate"]
    /\ UNCHANGED <<damaged, index_file, meta_file, session, proc, labelVars,
                   legacyVars, csvVars, clfVars, harvVars>>

\* batch_learn.py:69-77, after the try statement: the time estimate and
\* the sleep.
batch_estimate ==
    /\ batch.pc = "estimate"
    /\ batch' = NextUrl(batch)
    /\ UNCHANGED <<session, proc, labelVars, legacyVars, memVars, csvVars,
                   clfVars, harvVars>>

\* A KeyboardInterrupt inside the try statement of batch_learn.py:40-61,
\* wherever the item is: it is caught at line 63 and the loop is left.
batch_interrupt_in_item ==
    /\ batch.pc \in {"scrape", "index_add", "metadata_append"}
    /\ batch' = [batch EXCEPT !.pc = "save_index", !.interrupted = batch.pc]
    /\ UNCHANGED <<session, proc, labelVars, legacyVars, memVars, csvVars,
                   clfVars, harvVars>>

\* A KeyboardInterrupt in lines 69-77, outside the try statement: nothing
\* catches it and the process ends.
batch_interrupt_after_item ==
    /\ batch.pc = "estimate"
    /\ batch' = [batch EXCEPT !.pc = "killed", !.interrupted = batch.pc]
    /\ UNCHANGED <<session, proc, labelVars, legacyVars, memVars, csvVars,
                   clfVars, harvVars>>

\* batch_learn.py:81, Memory.save, memory.py:47-48
batch_save_index ==
    /\ batch.pc = "save_index"
    /\ index_file' = [exists |-> TRUE, index |-> memory.index]
    /\ damaged' = damaged \ {"index"}
    /\ batch' = [batch EXCEPT !.pc = "save_metadata"]
    /\ UNCHANGED <<memory, meta_file, mlast, session, proc, labelVars,
                   legacyVars, csvVars, clfVars, harvVars>>

\* batch_learn.py:81-84, Memory.save, memory.py:50-53
batch_save_metadata ==
    /\ batch.pc = "save_metadata"
    /\ meta_file' = [exists |-> TRUE, list |-> memory.metadata]
    /\ damaged' = damaged \ {"metadata"}
    /\ mlast' = MCall("save", "none")
    /\ batch' = [batch EXCEPT !.pc = "done"]
    /\ UNCHANGED <<memory, index_file, session, proc, labelVars,
                   legacyVars, csvVars, clfVars, harvVars>>

\* config.py:36
MIN_CONFIDENCE_TO_AUTO_LABEL == 95

MaxSessionUrls == 2

SessionConfs == {85, 94, 95, 100}

NoSession == [pc |-> "none", todo |-> <<>>, newly_labeled_count |-> 0, rows0 |-> 0]

\* run_autonomous_session, autonomous_learn.py:59-93, called by main.py:100
\* or run as a program: the articles that find_wiki_links found are the
\* urls to process; without any the session returns (line 88).
run_autonomous_session(articles) ==
    /\ session.pc = "none"
    /\ proc.pc \in {"none", "learn"}
    /\ session' = IF articles = <<>> THEN [NoSession EXCEPT !.pc = "returned"]
                  ELSE [pc |-> "loop", todo |-> articles, newly_labeled_count |-> 0,
                        rows0 |-> DataRows(pending)]
    /\ UNCHANGED <<batch, proc, labelVars, legacyVars, memVars, csvVars, clfVars,
                   harvVars>>

\* run_autonomous_session, autonomous_learn.py:94-114, one url of the loop.
\* outcome is what scraping and scoring come to: no text or a text of
\* fewer than 500 words (line 98), an exception of the scorer (line 112),
\* or a label and a confidence. At MIN_CONFIDENCE_TO_AUTO_LABEL and above
\* the gate is called and the url is counted (lines 106-108).
session_item(outcome, label, confidence, fault) ==
    LET text == Head(session.todo)
        labels == outcome = "scored" /\ confidence >= MIN_CONFIDENCE_TO_AUTO_LABEL
    IN  /\ session.pc = "loop"
        /\ session.todo # <<>>
        /\ labels \/ fault = "none"
        /\ outcome = "scored" \/ confidence = 0
        /\ pending' = IF labels /\ GateAccepts(confidence)
                      THEN AppendRow(pending, text, label, fault)
                      ELSE pending
        /\ last' = IF labels
                   THEN [op |-> "maybe_auto_label", text |-> text, label |-> label,
                         conf |-> confidence, fault |-> fault,
                         outcome |-> IF ~GateAccepts(confidence) THEN "too low"
                                     ELSE IF fault = "none" THEN "saved" ELSE "failed",
                         returned |-> GateReturns(confidence, fault),
                         prev |-> last.outcome]
                   ELSE last
        /\ session' = [session EXCEPT
                          !.todo = Tail(@),
                          !.newly_labeled_count = IF labels THEN @ + 1 ELSE @]
        /\ UNCHANGED <<main, batch, proc, legacyVars, memVars, csvVars, clfVars,
                       harvVars>>

\* run_autonomous_session, autonomous_learn.py:116-122
session_complete ==
    /\ session.pc = "loop"
    /\ session.todo = <<>>
    /\ session' = [session EXCEPT !.pc = "complete"]
    /\ UNCHANGED <<batch, proc, labelVars, legacyVars, memVars, csvVars, clfVars,
                   harvVars>>

MaxCycles == 2

\* The interpreters main.py may be run with: data_doctor.py:69 and 77 have
\* a backslash inside an f-string expression, a SyntaxError before
\* Python 3.12.
Pythons == {"3.11", "3.12"}

\* The texts of fewer than ten words (data_doctor.py:218-221).
ShortTexts == {"bar"}

\* The urls the harvester of a cycle may add.
CycleUrls == {"x", "y"}

\* The steps of a cycle of run_autonomous_ai, main.py:86-100, in their order.
CycleSteps == <<"harvester", "checkup", "curation", "learning">>

NoProc == [pc |-> "none", cycles |-> 0, ran |-> <<>>, reason |-> "none"]

\* main.py:10-20, the imports of a fresh process. model.py makes the
\* Classifier (model.py:50); memory.py runs the merge at its end; an
\* exception of an import ends the process with a traceback.
main_import(python) ==
    /\ proc.pc = "none"
    /\ batch.pc = "none"
    /\ session.pc = "none"
    /\ model_pipeline' = Classifier(model_file)
    /\ scored' = [NoScore EXCEPT !.op = "import",
                                 !.version = model_pipeline'.pipeline.version]
    /\ LET r == ModuleMerge(auto_csv, labeled_csv)
           reason == IF r.outcome # "merged" THEN r.outcome
                     ELSE IF python = "3.11" THEN "SyntaxError"
                     ELSE "none"
       IN  /\ auto_csv' = r.pending
           /\ labeled_csv' = r.main
           /\ legacyRan' = r.outcome
           /\ proc' = [proc EXCEPT
                          !.pc = IF reason = "none" THEN "init" ELSE "traceback",
                          !.reason = reason]
    /\ UNCHANGED <<model_file, batch, session, labelVars, memVars, csvVars,
                   harvVars>>

\* main.py:128-149. build_initial_memory (line 139) is defined nowhere: the
\* NameError is caught at line 144 like the exceptions of Memory(), and the
\* process exits with status 1 (line 147). Otherwise run_autonomous_ai is
\* entered (line 149) and the first cycle starts.
main_init ==
    LET r == Construct(index_file, meta_file, damaged)
        reason == IF r.outcome # "none" THEN r.outcome
                  ELSE IF r.memory.index.ntotal = 0 THEN "NameError"
                  ELSE "none"
    IN  /\ proc.pc = "init"
        /\ memory' = r.memory
        /\ mlast' = MCall("__init__", r.outcome)
        /\ proc' = IF reason = "none"
                   THEN [proc EXCEPT !.pc = "harvest", !.cycles = 1]
                   ELSE [proc EXCEPT !.pc = "exit", !.reason = reason]
        /\ UNCHANGED <<index_file, meta_file, damaged, batch, session, labelVars,
                       legacyVars, csvVars, clfVars, harvVars>>

\* The step of the cycle is over and the next one starts; or it raised,
\* which the handler of main.py:104-111 catches; or it waits at an input()
\* for the user.
Ran(step, outcome, next) ==
    [proc EXCEPT !.pc = CASE outcome = "raised" -> "handler"
                          [] outcome = "input"  -> "input"
                          [] OTHER              -> next,
                 !.ran = IF outcome = "returned" THEN Append(@, step) ELSE @]

\* main.py:88, run_harvester(): it returns with the new urls appended to
\* URLS_FILE, once each; it raises when a topics file is no utf-8
\* (get_wikipedia_urls.py:102-105 catch IOError only).
cycle_harvest(new, outcome) ==
    /\ proc.pc = "harvest"
    /\ outcome = "returned" \/ new = <<>>
    /\ Range(new) \cap Range(urls_txt) = {}
    /\ urls_txt' = AppendUrls(urls_txt, new, "none")
    /\ proc' = Ran("harvester", outcome, "checkup")
    /\ UNCHANGED <<existing_urls, found_this_run, lock, jobs, harvest, batch, session,
                   labelVars, legacyVars, memVars, csvVars, clfVars>>

Checked(m, outcome) == [main |-> m, outcome |-> outcome]

\* run_data_checkup(autonomous_mode), data_doctor.py:41-251, on the main
\* dataset m: the lines of two fields are kept (81-89) and read (145-146),
\* rows without text or label, repeated texts and short texts are dropped
\* (154, 209, 221) and the file is written (245). No file, an empty file
\* and an empty dataset return early (91, 72, 158); a header without text
\* or label raises KeyError at line 154. Outside autonomous mode the call
\* waits at an input(): at line 107 when lines were dropped, at line 230
\* before it writes.
RunDataCheckup(m, autonomous_mode) ==
    IF ~m.exists \/ m.lines = <<>> THEN Checked(m, "returned")
    ELSE LET kept == SelectSeq(Tail(m.lines), LAMBDA row : Len(row) = 2)
             df == read_csv(File(<<Head(m.lines)>> \o kept), "error")
             full == SelectSeq(df.rows, LAMBDA row :
                         Cell(df, row, "text") # NaN /\ Cell(df, row, "label") # NaN)
             unique == drop_duplicates(Frame(df.cols, full), "text", "first")
             long == SelectSeq(unique.rows, LAMBDA row :
                         Cell(df, row, "text") \notin ShortTexts)
         IN  IF ~autonomous_mode /\ kept # Tail(m.lines) THEN Checked(m, "input")
             ELSE IF df.err # "none" THEN Checked(m, "returned")
             ELSE IF ~(InSeq("text", df.cols) /\ InSeq("label", df.cols))
             THEN Checked(m, "raised")
             ELSE IF full = <<>> THEN Checked(m, "returned")
             ELSE IF ~autonomous_mode THEN Checked(m, "input")
             ELSE Checked(to_csv(Frame(df.cols, long)), "returned")

CheckupInteractive == FALSE

\* main.py:92 passes autonomous_mode=True.
CheckupAutonomous == TRUE

\* main.py:92, run_data_checkup(autonomous_mode=True)
cycle_checkup ==
    /\ proc.pc = "checkup"
    /\ LET r == RunDataCheckup(main, CheckupAutonomous)
       IN  /\ main' = r.main
           /\ proc' = Ran("checkup", r.outcome, "curate")
    /\ UNCHANGED <<pending, last, batch, session, legacyVars, memVars, csvVars,
                   clfVars, harvVars>>

RECURSIVE GateAll(_, _, _)
\* The pending file after maybe_auto_label(text, label, prob) for every
\* text of texts that has a top prediction of min_auto_label_confidence or
\* more (curate_knowledge.py:163-169).
GateAll(f, texts, self) ==
    IF texts = <<>> THEN f
    ELSE LET r == GetTopPredictions(self, Head(texts))
             labels == /\ r.predictions # <<>>
                       /\ r.predictions[1].prob >= MIN_CONFIDENCE_TO_AUTO_LABEL
         IN  GateAll(IF labels /\ GateAccepts(r.predictions[1].prob)
                     THEN AppendRow(f, Head(texts), r.predictions[1].label, "none")
                     ELSE f,
                     Tail(texts), self)

\* The texts of texts that the autonomous curation session labels.
Curated(texts, self) ==
    {i \in 1..Len(texts) :
        LET r == GetTopPredictions(self, texts[i])
        IN  /\ r.predictions # <<>>
            /\ r.predictions[1].prob >= MIN_CONFIDENCE_TO_AUTO_LABEL}

\* main.py:96, run_curation_session(autonomous_mode=True),
\* curate_knowledge.py:84-200. scraped are the urls of URLS_FILE that give
\* a text. With a labeled url the session merges (line 180) and calls
\* train_model (line 186), which, with ten examples and a first fit that
\* went through, waits at input() (learn.py:96) for the user to press
\* Enter; with fewer it returns (learn.py:35-37); what it raises goes to
\* the handler of the cycle.
cycle_curate(scraped, kind) ==
    LET texts == SelectSeq(urls_txt, LAMBDA u : u \in scraped)
        session_labeled_count == Cardinality(Curated(texts, model_pipeline))
        merged == MergeAutoLabeledData(GateAll(pending, texts, model_pipeline), main)
        trained == TrainModel(merged.main, model_file, kind)
        outcome == IF session_labeled_count = 0 THEN "returned"
                   ELSE IF trained.outcome = "saved" THEN "input"
                   ELSE IF trained.outcome = "not enough data" THEN "returned"
                   ELSE "raised"
    IN  /\ proc.pc = "curate"
        /\ scraped \subseteq Range(urls_txt)
        /\ pending' = IF session_labeled_count = 0 THEN pending ELSE merged.pending
        /\ main' = IF session_labeled_count = 0 THEN main ELSE merged.main
        /\ proc' = Ran("curation", outcome, "learn")
        /\ UNCHANGED <<last, batch, session, legacyVars, memVars, csvVars, clfVars,
                       harvVars>>

\* main.py:100-102: run_autonomous_session() has returned.
cycle_learned ==
    /\ proc.pc = "learn"
    /\ session.pc \in {"returned", "complete"}
    /\ session' = NoSession
    /\ proc' = Ran("learning", "returned", "finished")
    /\ UNCHANGED <<batch, labelVars, legacyVars, memVars, csvVars, clfVars,
                   harvVars>>

\* main.py:113-115 (after the handler's sleep of line 111 when the cycle
\* raised) and the top of the loop, lines 82-84.
cycle_sleep ==
    /\ proc.pc \in {"finished", "handler"}
    /\ proc.cycles < MaxCycles
    /\ proc' = [proc EXCEPT !.pc = "harvest", !.cycles = @ + 1, !.ran = <<>>]
    /\ UNCHANGED <<batch, session, labelVars, legacyVars, memVars, csvVars, clfVars,
                   harvVars>>

----------------------------------------------------------------------------
(* Specifications *)

InitLabel ==
    /\ pending = NoFile
    /\ main = NoFile
    /\ last = NoCall

InitLegacy ==
    /\ auto_csv = NoFile
    /\ labeled_csv = NoFile
    /\ legacyRan = "none"

InitMemory ==
    /\ memory = NoMemory
    /\ index_file = NoIndexFile
    /\ meta_file = NoMetaFile
    /\ damaged = {}
    /\ mlast = NoOp

InitClassifier ==
    /\ model_file = NoModelFile
    /\ model_pipeline = NoClassifier
    /\ scored = NoScore

InitCsv ==
    /\ raw_pending = NoRawFile
    /\ raw_last = NoRawOp

InitHarvester ==
    /\ urls_txt = <<>>
    /\ existing_urls = {}
    /\ found_this_run = {}
    /\ lock = "free"
    /\ jobs = [t \in Topics |-> NoJob]
    /\ harvest = NoHarvest

InitProc ==
    /\ batch = NoBatch
    /\ session = NoSession
    /\ proc = NoProc

Init ==
    /\ InitLabel /\ InitLegacy /\ InitMemory /\ InitCsv /\ InitClassifier
    /\ InitHarvester /\ InitProc

Next ==
    \/ \E text \in Texts, label \in Labels, confidence \in Confs,
          fault \in HeaderKeepingFaults :
           maybe_auto_label(text, label, confidence, fault)
    \/ merge_files
    \/ merge_auto_labeled_data

\* The labeling pipeline: gate appends and merges, from a fresh data directory.
Spec == Init /\ [][Next]_vars

GateNext ==
    \E text \in Texts, label \in Labels, confidence \in Confs,
       fault \in WriteFaults :
        maybe_auto_label(text, label, confidence, fault)

\* The gate alone, under every fault of its try block.
GateSpec == Init /\ [][GateNext]_vars

MaxLegacyRows == 2

\* The files a previous run left: absent, or a header and some records.
LegacyFiles ==
    {NoFile} \cup
    {File(<<Header>> \o rows) : rows \in SeqsUpTo(Texts \X Labels, MaxLegacyRows)}

LegacyInit ==
    /\ InitLabel
    /\ InitMemory
    /\ InitCsv
    /\ InitClassifier
    /\ InitHarvester
    /\ InitProc
    /\ auto_csv \in LegacyFiles
    /\ labeled_csv \in LegacyFiles
    /\ legacyRan = "none"

LegacyNext == import_memory

\* The merge at the end of memory.py, on the two files it names.
LegacySpec == LegacyInit /\ [][LegacyNext]_vars

MemoryNext ==
    \/ Memory_init
    \/ \E u \in Urls : add(ndarray(Embed[u]), u)
    \/ \E x \in Malformed, u \in Urls : add(x, u)
    \/ \E v \in QueryVectors, k \in 1..(MaxEntries + 1) : query(v, k)
    \/ save_index
    \/ save_metadata
    \/ interrupt_save

\* The vector memory over process runs, from a fresh data directory.
MemorySpec == Init /\ [][MemoryNext]_vars

MaxLeftRows == 2

\* A line with a field too many: the text baz,qux written without quotes.
MalformedLine == <<"baz", "qux", "A">>

LeftRows == SeqsUpTo((Texts \X Labels) \cup {MalformedLine}, MaxLeftRows)

\* The pending files earlier runs can leave: none; one created and never
\* written to; a header and lines; lines without a header, appended to a
\* file that had been created empty.
LeftPending ==
    {NoFile, File(<<>>)}
    \cup {File(<<Header>> \o rows) : rows \in LeftRows}
    \cup {File(rows) : rows \in LeftRows \ {<<>>}}

\* The main dataset files: none; one truncated to nothing; a header and lines.
LeftMain ==
    {NoFile, File(<<>>)} \cup {File(<<Header>> \o rows) : rows \in LeftRows}

MergeInit ==
    /\ pending \in LeftPending
    /\ main \in LeftMain
    /\ last = NoCall
    /\ InitLegacy
    /\ InitMemory
    /\ InitCsv
    /\ InitClassifier
    /\ InitHarvester
    /\ InitProc

MergeNext ==
    \/ merge_files
    \/ merge_auto_labeled_data
    \/ merge_files_killed
    \/ merge_auto_labeled_data_killed

\* The merges on the files earlier runs and other tools left.
MergeSpec == MergeInit /\ [][MergeNext]_vars

QuoteNext ==
    \/ \E text \in RawTexts, label \in RawLabels : gate_writerow(text, label)
    \/ \E engine \in {"python", "c"} : read_pending(engine)

\* The gate's writer and the merges' reader on the characters of the file.
QuoteSpec == Init /\ [][QuoteNext]_vars

\* A main dataset of n examples over the classes cs.
TrainingSet(n, cs) ==
    File(<<Header>> \o [i \in 1..n |-> <<TrainTexts[i], cs[((i - 1) % Len(cs)) + 1]>>])

TrainingSets ==
    {NoFile} \cup {TrainingSet(n, cs) : n \in {0, MinExamples - 1, MinExamples},
                                        cs \in {<<"A", "B">>, <<"A", "B", "C">>}}

\* The pending store when the process starts: absent, or left with a record.
ScorerPending == {NoFile, File(<<Header, <<"foo", "C">> >>)}

ScorerInit ==
    /\ pending \in ScorerPending
    /\ main \in TrainingSets
    /\ last = NoCall
    /\ InitLegacy
    /\ InitMemory
    /\ InitCsv
    /\ InitClassifier
    /\ InitHarvester
    /\ InitProc

ScorerNext ==
    \/ import_model
    \/ \E text \in Texts, raw \in Outputs(model_pipeline.pipeline) :
           predict_with_confidence(text, raw)
    \/ \E text \in Texts : get_top_predictions(text)
    \/ \E kind \in {"proba", "margin"} : train_model(kind)
    \/ \E autonomous_mode \in BOOLEAN, retrain_choice \in {"y", "n"},
          kind \in {"proba", "margin"} :
           run_curation_session(autonomous_mode, retrain_choice, kind)
    \/ merge_files
    \/ merge_auto_labeled_data

\* Scoring, merging and retraining over process runs.
ScorerSpec == ScorerInit /\ [][ScorerNext]_vars

HarvestInit ==
    /\ InitLabel /\ InitLegacy /\ InitMemory /\ InitCsv /\ InitClassifier
    /\ InitProc
    /\ urls_txt \in UrlFiles
    /\ existing_urls = {}
    /\ found_this_run = {}
    /\ lock = "free"
    /\ jobs = [t \in Topics |-> NoJob]
    /\ harvest = NoHarvest

HarvestNext ==
    \/ run_harvester
    \/ \E t \in Topics, links \in SUBSET HarvestUrls : job_search(t, links)
    \/ \E t \in Topics : job_filter(t)
    \/ \E t \in Topics, S \in SUBSET HarvestUrls :
           \E validated \in Enumerations(S) : job_validate(t, validated)
    \/ \E t \in Topics : job_acquire(t)
    \/ \E t \in Topics : job_final(t)
    \/ \E t \in Topics, fault \in {"none", "IOError"} : job_append(t, fault)
    \/ \E t \in Topics : job_update_found(t)
    \/ \E t \in Topics : job_update_existing(t)
    \/ \E t \in Topics : job_release(t)
    \/ harvester_finished

\* One run of the harvester on the url file an earlier run left.
HarvestSpec == HarvestInit /\ [][HarvestNext]_vars

BatchInit ==
    /\ InitLabel /\ InitCsv /\ InitClassifier
    /\ auto_csv \in ImportFiles
    /\ labeled_csv \in ImportFiles
    /\ legacyRan = "none"
    /\ memory = NoMemory
    /\ mlast = NoOp
    /\ damaged = {}
    /\ \E us \in {<<>>, <<"u3">>} :
           /\ index_file \in {NoIndexFile, SavedIndex(us)}
           /\ meta_file = IF index_file.exists THEN SavedMeta(us) ELSE NoMetaFile
    /\ urls_txt \in BatchUrlFiles
    /\ existing_urls = {}
    /\ found_this_run = {}
    /\ lock = "free"
    /\ jobs = [t \in Topics |-> NoJob]
    /\ harvest = NoHarvest
    /\ InitProc

BatchNext ==
    \/ import_batch_learn
    \/ learn_from_file
    \/ \E outcome \in {"text", "no text", "Exception"}, confidence \in {0, 100},
          fault \in {"none", "open"} :
           batch_item(outcome, "A", confidence, fault)
    \/ batch_index_add
    \/ batch_metadata_append
    \/ batch_estimate
    \/ batch_interrupt_in_item
    \/ batch_interrupt_after_item
    \/ batch_save_index
    \/ batch_save_metadata

\* One run of batch_learn.py on the store an earlier run saved.
BatchSpec == BatchInit /\ [][BatchNext]_vars

\* The store files an earlier run left, whole or damaged.
StoreInit ==
    /\ InitLabel /\ InitLegacy /\ InitCsv /\ InitClassifier
    /\ InitHarvester /\ InitProc
    /\ memory = NoMemory
    /\ mlast = NoOp
    /\ index_file \in {NoIndexFile, SavedIndex(<<"u3">>)}
    /\ meta_file \in {NoMetaFile, SavedMeta(<<"u3">>)}
    /\ damaged \in SUBSET {"index", "metadata"}
    /\ "index" \in damaged => index_file.exists
    /\ "metadata" \in damaged => meta_file.exists

\* The vector memory over process runs, on the files an earlier run left.
StoreSpec == StoreInit /\ [][MemoryNext]_vars

SessionInit ==
    /\ pending \in {NoFile, File(<<Header, <<"foo", "A">> >>)}
    /\ main = NoFile
    /\ last = NoCall
    /\ InitLegacy /\ InitMemory /\ InitCsv /\ InitClassifier
    /\ InitHarvester /\ InitProc

SessionNext ==
    \/ \E articles \in SeqsUpTo(Texts, MaxSessionUrls) : run_autonomous_session(articles)
    \/ \E outcome \in {"scored", "no text", "Exception"}, label \in Labels,
          confidence \in SessionConfs \cup {0}, fault \in WriteFaults :
           session_item(outcome, label, confidence, fault)
    \/ session_complete

\* One autonomous learning session, under every fault of the gate.
SessionSpec == SessionInit /\ [][SessionNext]_vars

\* The data directory main.py may be started in.
MainInit ==
    /\ pending \in {NoFile, File(<<Header, <<"foo", "B">> >>)}
    /\ main \in {NoFile, File(<<Header, <<"foo", "A">>, <<"bar", "B">>, <<"baz">> >>),
                  File(<< <<"text">>, <<"foo", "A">> >>)}
    /\ last = NoCall
    /\ auto_csv \in ImportFiles
    /\ labeled_csv \in ImportFiles
    /\ legacyRan = "none"
    /\ memory = NoMemory
    /\ mlast = NoOp
    /\ index_file \in {NoIndexFile, SavedIndex(<<>>), SavedIndex(<<"u3">>)}
    /\ meta_file \in {NoMetaFile, SavedMeta(<<"u3">>)}
    /\ damaged \in SUBSET {"index", "metadata"}
    /\ "index" \in damaged => index_file.exists
    /\ "metadata" \in damaged => meta_file.exists
    /\ InitCsv /\ InitClassifier /\ InitHarvester /\ InitProc

\* The steps of a cycle of run_autonomous_ai, main.py:82-115.
CycleNext ==
    \/ \E S \in SUBSET CycleUrls, outcome \in {"returned", "raised"} :
           \E new \in Enumerations(S) : cycle_harvest(new, outcome)
    \/ cycle_checkup
    \/ \E scraped \in SUBSET CycleUrls, kind \in {"proba", "margin"} :
           cycle_curate(scraped, kind)
    \/ \E articles \in {<<>>, <<"foo">>} : run_autonomous_session(articles)
    \/ \E outcome \in {"scored", "no text"}, confidence \in {0, 94, 100} :
           session_item(outcome, "A", confidence, "none")
    \/ session_complete
    \/ cycle_learned
    \/ cycle_sleep

MainNext ==
    \/ \E python \in Pythons : main_import(python)
    \/ main_init
    \/ CycleNext

\* main.py from the start of the process, and the cycles of its loop.
MainSpec == MainInit /\ [][MainNext]_vars

\* Every call of the cycle returns and the interpreter goes on with the
\* next statement.
MainLiveSpec == MainSpec /\ WF_vars(CycleNext)

----------------------------------------------------------------------------
(* The auto-label gate *)

\* The gate call left the file with the record (text, label) appended, after
\* the header when the call created the file.
RowAppended(before, after, text, label) ==
    LET old == IF before.exists THEN before.lines ELSE <<>>
    IN  /\ after.exists
        /\ \/ after.lines = old \o << <<text, label>> >>
           \/ after.lines = old \o <<Header, <<text, label>> >>

----------------------------------------------------------------------------
(* The vector memory *)

\* As many vectors as metadata records, and the i-th vector is the
\* embedding of the url the i-th metadata record was added with.
Aligned(mem) ==
    /\ mem.index.ntotal = Len(mem.metadata)
    /\ \A i \in 0..(mem.index.ntotal - 1) :
           i < Len(mem.metadata) => Vector(mem.index, i) = Embed[mem.metadata[i + 1]]

\* C2, as claimed: in every state of a constructed store the index holds as
\* many vectors as there are metadata records and the i-th vector added
\* belongs to the i-th metadata record.
C2_IndexAndMetadataAligned == memory.pc # "none" => Aligned(memory)

\* C3, as claimed: a store constructed while the index file or the metadata
\* file was missing starts with no vectors and no metadata.
C3_EmptyUnlessBothFiles ==
    (mlast.op = "__init__" /\ ~(index_file.exists /\ meta_file.exists))
    => (memory.index.ntotal = 0 /\ memory.metadata = <<>>)

\* C4: a store constructed right after a save() holds the index (so the same
\* ntotal) and the metadata list of the store that was saved, and query(v, 1)
\* answers the same on both for every stored v.
C4_SaveThenLoadReproduces ==
    [][(mlast.op = "save" /\ Memory_init)
       => /\ memory'.index = memory.index
          /\ memory'.metadata = memory.metadata
          /\ \A i \in 0..(memory.index.ntotal - 1) :
                 Query(memory', Vector(memory.index, i), 1)
                     = Query(memory, Vector(memory.index, i), 1)]_vars

\* A store of two entries was saved and constructed again.
C4_ReloadedAfterSave ==
    /\ mlast.op = "__init__"
    /\ mlast.prev = "save"
    /\ memory.index.ntotal >= 2
    /\ Len(memory.metadata) >= 2

\* C5, as claimed: a query never raises, reads the metadata list only at
\* valid positions, returns no more records than the store holds, and
\* returns nothing on an empty store.
C5_QueryNeverRaises ==
    mlast.op = "query"
    => /\ mlast.outcome = "none"
       /\ \A j \in 1..Len(mlast.labels) :
              mlast.labels[j] >= 0 /\ mlast.labels[j] < Len(memory.metadata)
       /\ Len(mlast.records) <= memory.index.ntotal
       /\ memory.index.ntotal = 0 => mlast.records = <<>>

\* The positions ls are distinct entries of the store, ordered by ascending
\* distance to v, and no entry left out is nearer than one of them.
NearestFirst(mem, v, ls) ==
    LET n == mem.index.ntotal
        dist(i) == L2(Vector(mem.index, i), v)
    IN  /\ \A j \in 1..Len(ls) : ls[j] \in 0..(n - 1)
        /\ \A j, h \in 1..Len(ls) : j < h => ls[j] # ls[h] /\ dist(ls[j]) <= dist(ls[h])
        /\ \A i \in 0..(n - 1) :
               (\A j \in 1..Len(ls) : ls[j] # i)
               => \A j \in 1..Len(ls) : dist(ls[j]) <= dist(i)

\* C6, as claimed: query(v, k) returns the metadata records of the min(k, n)
\* entries nearest to v, nearest first; after adding (1,0,0,0), (0,1,0,0)
\* and (0.9,0.1,0,0), query((1,0,0,0), 2) returns the first and the third.
C6_QueryReturnsNearestFirst ==
    mlast.op = "query"
    => /\ mlast.outcome = "none"
       /\ Len(mlast.records) = Min(mlast.k, memory.index.ntotal)
       /\ \E ls \in [1..Len(mlast.records) -> 0..(memory.index.ntotal - 1)] :
              /\ NearestFirst(memory, mlast.arg.data, ls)
              /\ \A j \in 1..Len(ls) :
                     /\ ls[j] < Len(memory.metadata)
                     /\ mlast.records[j] = memory.metadata[ls[j] + 1]
       /\ (/\ memory.index.xb = Embed["u1"] \o Embed["u2"] \o Embed["u3"]
           /\ mlast.arg.data = <<10, 0, 0, 0>>
           /\ mlast.k = 2)
          => /\ Len(memory.metadata) = 3
             /\ mlast.records = <<memory.metadata[1], memory.metadata[3]>>

----------------------------------------------------------------------------
(* The merges *)

\* For every text of main m or pending p, the written main m2 holds exactly
\* one record with that text, labelled as the last record with that text in
\* m followed by p.
LastWins(m, p, m2) ==
    LET cat == concat(read_csv(m, "error"), read_csv(p, "error"))
        out == read_csv(m2, "error")
        text(df, i) == Cell(df, df.rows[i], "text")
        label(df, i) == Cell(df, df.rows[i], "label")
        lastOf(t) == CHOOSE i \in 1..Len(cat.rows) :
                         /\ text(cat, i) = t
                         /\ \A j \in (i + 1)..Len(cat.rows) : text(cat, j) # t
    IN  /\ out.err = "none"
        /\ \A h \in 1..Len(cat.rows) :
               LET t == text(cat, h)
                   at == {i \in 1..Len(out.rows) : text(out, i) = t}
               IN  /\ Cardinality(at) = 1
                   /\ \A i \in at : label(out, i) = label(cat, lastOf(t))

\* C8, as claimed: after a successful merge the main dataset holds exactly
\* one record for every text of the main dataset and the pending store,
\* with the label of the last occurrence in main followed by pending.
C8_MergeKeepsLastLabel ==
    [][(import_memory /\ legacyRan' = "merged")
       => LastWins(labeled_csv, auto_csv, labeled_csv')]_vars

MergeOps == {"merge_files", "merge_auto_labeled_data"}

\* C9: a merge that runs right after a merge that consumed the pending store
\* reports no error and leaves the main dataset and the (absent) pending
\* store as the first run left them.
C9_SecondMergeIsNoOp ==
    [][(/\ last.op \in MergeOps
        /\ last.outcome \in {"merged", "emptied"}
        /\ merge_files \/ merge_auto_labeled_data)
       => /\ main' = main
          /\ pending' = pending
          /\ last'.outcome = "absent"]_vars

\* A merge has run right after one that merged records into the main dataset.
C9_MergedThenMergedAgain ==
    /\ last.op \in MergeOps
    /\ last.prev = "merged"
    /\ last.outcome = "absent"
    /\ main.exists
    /\ Len(main.lines) >= 2

\* C10, as claimed: a merge with no pending file changes nothing; a merge
\* with a pending file that holds no records leaves the main dataset as it
\* was and removes the pending file, whatever the main dataset file is.
C10_EmptyPendingRemoved ==
    [][(merge_files \/ merge_auto_labeled_data)
       => /\ ~pending.exists => (main' = main /\ pending' = pending)
          /\ (pending.exists /\ DataRows(pending) = 0)
             => (main' = main /\ ~pending'.exists)]_vars

----------------------------------------------------------------------------
(* The merges on files that earlier runs left *)

\* A file read_csv cannot take as it is: empty, or holding a line with more
\* fields than its first line.
Unparseable(f) ==
    /\ f.exists
    /\ \/ f.lines = <<>>
       \/ \E i \in 2..Len(f.lines) : Len(f.lines[i]) > Len(f.lines[1])

\* Every data line of m has a data line of m2 that starts with the same text.
NoRecordLost(m, m2) ==
    \A i \in 2..Len(m.lines) :
        \E j \in 2..Len(m2.lines) : m2.lines[j][1] = m.lines[i][1]

\* C11, as claimed: a merge that finds the main dataset or the pending file
\* unparseable (a malformed line included) leaves the main dataset as it
\* was, and no merge overwrites the main dataset with a set that lacks a
\* record the main dataset held.
C11_UnparseableLeavesMain ==
    [][(pending.exists /\ (merge_files \/ merge_auto_labeled_data))
       => /\ (Unparseable(main) \/ Unparseable(pending)) => main' = main
          /\ main' # main => NoRecordLost(main, main')]_vars

\* The records the gate appended to the file: its lines of two fields other
\* than the header.
AppendedRecords(f) ==
    {f.lines[i] : i \in 1..Len(f.lines)} \cap (Texts \X Labels)

\* The main dataset m, as read back, holds a record with the text of rec.
Represented(rec, m) ==
    LET df == read_csv(m, "warn")
    IN  /\ df.err = "none"
        /\ \E i \in 1..Len(df.rows) : Cell(df, df.rows[i], "text") = rec[1]

\* C17, as claimed: after every step of a merge, one that failed or was
\* killed before it removed the pending file included, every record of the
\* pending store is still in the pending store or is represented in the
\* main dataset by a record with the same text.
C17_PendingKeptUntilWritten ==
    [][(\/ merge_files
        \/ merge_auto_labeled_data
        \/ merge_files_killed
        \/ merge_auto_labeled_data_killed)
       => \A rec \in AppendedRecords(pending) :
              rec \in AppendedRecords(pending') \/ Represented(rec, main')]_vars

----------------------------------------------------------------------------
(* The pending store as characters *)

HasQuote(text) == \E i \in 1..Len(text) : text[i] = quotechar

\* C12, as claimed: the merge's read of the pending store gives, for every
\* record the gate wrote whose text holds a double quote, a record at the
\* same place whose text is the text that was written.
C12_QuotedTextRoundTrips ==
    raw_last.op = "read_csv"
    => \A i \in 1..Len(raw_last.written) :
           HasQuote(raw_last.written[i][1])
           => /\ raw_last.err = "none"
              /\ Len(raw_last.records) >= i + 1
              /\ raw_last.records[i + 1][1] = raw_last.written[i][1]

----------------------------------------------------------------------------
(* The gate's result and the pending file *)

\* bool(v) of what a call returned
Truthy(v) == v = "True"

\* C13, as claimed: what a gate call returns is true exactly when the call
\* persisted the record.
C13_ReturnsWhetherPersisted ==
    last.op = "maybe_auto_label"
    => (Truthy(last.returned) <=> last.outcome = "saved")

\* C19, as claimed: a pending file that exists starts with the header line,
\* and every line after it is a (text, label) pair that was appended.
C19_PendingStartsWithHeader ==
    pending.exists
    => /\ pending.lines # <<>>
       /\ Head(pending.lines) = Header
       /\ \A i \in 2..Len(pending.lines) : pending.lines[i] \in Texts \X Labels

----------------------------------------------------------------------------
(* The classifier *)

\* C14, as claimed: with a pipeline loaded, of either kind, a score comes
\* without an error and its confidence is a number from 0 to 1.
C14_ConfidenceInUnitInterval ==
    (scored.op = "predict" /\ model_pipeline.pipeline # NoPipeline)
    => /\ scored.outcome = "none"
       /\ ~scored.conf.nan
       /\ scored.conf.v >= 0
       /\ scored.conf.v <= 100

\* The score came without an error and no threshold above 0 admits it.
Degraded(s, label) ==
    /\ s.outcome = "none"
    /\ s.label = label
    /\ s.conf = Float(0)
    /\ \A threshold \in 1..100 : ~FloatGE(s.conf, threshold)

\* C15, as claimed: while there is no model artifact, scoring raises
\* nothing and answers the label unknown with confidence 0.0, which the gate
\* rejects for every threshold above 0.
C15_NoModelScoresUnknown ==
    /\ (scored.op = "predict" /\ ~model_file.exists) => Degraded(scored, "unknown")
    /\ (scored.op = "get_top_predictions" /\ ~model_file.exists)
       => (scored.outcome = "none" /\ scored.raw = <<>>)

\* C15, amended: while there is no model artifact, scoring raises nothing
\* and answers the label unclassified with confidence 0.0, which the gate
\* rejects for every threshold above 0; get_top_predictions raises nothing
\* and answers no predictions.
C15_NoModelScoresUnclassified ==
    /\ (scored.op = "predict" /\ ~model_file.exists) => Degraded(scored, "unclassified")
    /\ (scored.op = "get_top_predictions" /\ ~model_file.exists)
       => (scored.outcome = "none" /\ scored.raw = <<>>)

\* A text was scored by a process that found no model artifact.
C15_ScoredWithoutModel ==
    /\ scored.op = "predict"
    /\ ~model_file.exists
    /\ model_pipeline.pipeline = NoPipeline
    /\ scored.label = "unclassified"

\* C16, as claimed: a margin-only pipeline whose margins are all equal, or
\* that answers one margin only, scores with confidence 1.0 and without an
\* error or an undefined value.
C16_DegenerateMarginsScoreOne ==
    (/\ scored.op = "predict"
     /\ model_pipeline.pipeline.kind = "margin"
     /\ \A i \in 1..Len(scored.raw) : scored.raw[i] = scored.raw[1])
    => (scored.outcome = "none" /\ scored.conf = Float(100))

\* C18: a merge leaves the model artifact and the loaded classifier as they
\* were; the artifact changes only in train_model, or at the end of a
\* curation session that is autonomous or whose user asked to retrain.
C18_MergeNeverTrains ==
    [][/\ (merge_files \/ merge_auto_labeled_data)
          => (model_file' = model_file /\ model_pipeline' = model_pipeline)
       /\ model_file' # model_file
          => \/ \E kind \in {"proba", "margin"} : train_model(kind)
             \/ \E autonomous_mode \in BOOLEAN, retrain_choice \in {"y", "n"},
                   kind \in {"proba", "margin"} :
                    /\ run_curation_session(autonomous_mode, retrain_choice, kind)
                    /\ autonomous_mode \/ retrain_choice = "y"]_vars

\* A merge has brought a record of a new class into the main dataset, and
\* the model on disk is still the one trained before it, without the class.
C18_MergedWithModelOnDisk ==
    /\ last.op \in MergeOps
    /\ last.outcome = "merged"
    /\ model_file.exists
    /\ model_file.pipeline.classes = <<"A", "B">>
    /\ \E i \in 2..Len(main.lines) : main.lines[i][2] = "C"

\* C20, as claimed: every score is computed with the model artifact that is
\* on disk when the score is asked for, so with the newly trained one after
\* a retraining.
C20_ScoresWithNewestModel ==
    scored.op = "predict" => scored.version = model_file.pipeline.version

----------------------------------------------------------------------------
(* The harvester *)

\* The statements of job under "with lock", lines 154-159.
InSection(t) == jobs[t].pc \in {"final", "append", "found", "existing", "release"}

\* C21: in the harvester's pool the appends to the url file and the updates
\* of the shared url sets go through one lock: never are two jobs inside
\* the append-and-update section at once, and the job inside holds the lock.
C21_OneJobInSection ==
    \A t \in Topics :
        InSection(t) => (lock = t /\ \A u \in Topics \ {t} : ~InSection(u))

\* A job appends while the other one waits for the lock.
C21_AppendingWhileOtherWaits ==
    \E t, u \in Topics :
        /\ jobs[t].pc = "append"
        /\ jobs[u].pc = "acquire"
        /\ lock = t

\* The lines the run appended to the url file.
Appended == SubSeq(urls_txt, harvest.lines + 1, Len(urls_txt))

----------------------------------------------------------------------------
(* Batch learning *)

\* s starts with p.
IsPrefix(p, s) == Len(p) <= Len(s) /\ SubSeq(s, 1, Len(p)) = p

\* C22, as claimed: a keyboard interrupt that arrives while an item is
\* processed ends the run with the saved state sound: the index file and
\* the metadata file hold the same number of entries, and the entries an
\* earlier run saved are still there, in their places.
C22_InterruptKeepsSavedStateAligned ==
    (batch.interrupted # "no" /\ batch.pc \in {"done", "killed"})
    => /\ index_file.index.ntotal = Len(meta_file.list)
       /\ IsPrefix(batch.index0.xb, index_file.index.xb)
       /\ IsPrefix(batch.metadata0, meta_file.list)

----------------------------------------------------------------------------
(* The files of the vector memory *)

\* C23, as claimed: the index file and the metadata file are written
\* together: in every state of the disk, also between the two writes of a
\* save() and after a save() that was interrupted there, the index file
\* and the metadata file describe the same number of entries.
C23_FilesWrittenTogether == index_file.index.ntotal = Len(meta_file.list)

\* The file at INDEX_PATH or at METADATA_PATH is there and does not
\* deserialize.
CorruptStore ==
    \/ index_file.exists /\ "index" \in damaged
    \/ meta_file.exists /\ "metadata" \in damaged

\* C24: constructing the store on an index file or a metadata file that is
\* there and does not deserialize ends with the error, and with no store:
\* not an empty one, and not one that holds the half that could be read.
C24_CorruptStoreSurfaces ==
    [][(Memory_init /\ CorruptStore)
       => (mlast'.outcome # "none" /\ memory' = NoMemory)]_vars

\* The constructor raised on a damaged metadata file next to an index file
\* that holds an entry and can be read.
C24_RaisedOnDamagedMetadata ==
    /\ mlast.op = "__init__"
    /\ mlast.outcome = "UnpicklingError"
    /\ index_file.exists
    /\ index_file.index.ntotal > 0
    /\ "index" \notin damaged
    /\ memory = NoMemory

\* A step of add, of query or of save on the store of the process.
StoreOps ==
    \/ \E u \in Urls : add(ndarray(Embed[u]), u)
    \/ \E x \in Malformed, u \in Urls : add(x, u)
    \/ \E v \in QueryVectors, k \in 1..(MaxEntries + 1) : query(v, k)
    \/ save_index
    \/ save_metadata

QueryOrSave ==
    \/ \E v \in QueryVectors, k \in 1..(MaxEntries + 1) : query(v, k)
    \/ save_index
    \/ save_metadata

\* C25: the store is append-only: over add, query and save the number of
\* entries never goes down and every vector and every metadata record
\* keeps its place and its content; query and save change no entry.
C25_AppendOnly ==
    [][/\ StoreOps
          => /\ memory'.index.ntotal >= memory.index.ntotal
             /\ Len(memory'.metadata) >= Len(memory.metadata)
             /\ IsPrefix(memory.index.xb, memory'.index.xb)
             /\ IsPrefix(memory.metadata, memory'.metadata)
       /\ QueryOrSave
          => /\ memory'.index = memory.index
             /\ memory'.metadata = memory.metadata]_vars

\* A store that was loaded with an entry got a second one, was saved and
\* then queried.
C25_AddedSavedQueried ==
    /\ mlast.op = "query"
    /\ mlast.prev = "save"
    /\ memory.index.ntotal >= 2
    /\ Len(memory.metadata) >= 2
    /\ index_file.index.ntotal >= 2

----------------------------------------------------------------------------
(* The scorer on margins *)

\* The margins decision_function answers are not all the same; the one
\* margin m of two classes stands for the margins -m and m.
MarginsDiffer(raw) ==
    IF Len(raw) = 1 THEN raw[1] # 0
    ELSE \E i, j \in 1..Len(raw) : raw[i] # raw[j]

\* C26, as claimed: a classifier that has decision_function only, at least
\* two classes and margins that are not all equal is scored with the
\* confidence 1.0 for every text, which the gate accepts.
C26_MarginConfidenceIsOne ==
    [][\A text \in Texts, raw \in DecisionOutputs(2) \cup DecisionOutputs(3) :
          (/\ predict_with_confidence(text, raw)
           /\ model_pipeline.pipeline.kind = "margin"
           /\ Len(model_pipeline.pipeline.classes) >= 2
           /\ MarginsDiffer(raw))
          => /\ scored'.outcome = "none"
             /\ scored'.conf = Float(100)
             /\ GateAccepts(scored'.conf.v)]_vars

----------------------------------------------------------------------------
(* The autonomous learning session *)

\* C28, as claimed: when an autonomous learning session is over, its
\* newly_labeled_count is the number of records the session appended to
\* the pending store.
C28_CountIsWhatWasAppended ==
    session.pc = "complete"
    => session.newly_labeled_count = DataRows(pending) - session.rows0

----------------------------------------------------------------------------
(* main.py *)

\* C29: a cycle of the autonomous loop that has started runs harvester,
\* data check-up, curation and autonomous learning in this order and
\* comes to the end of the cycle, or to the error handler from the step
\* that raised; it never waits for a user.
C29_CycleRunsToItsEnd ==
    (proc.pc = "harvest")
    ~> \/ proc.pc = "finished" /\ proc.ran = CycleSteps
       \/ proc.pc = "handler" /\ IsPrefix(proc.ran, CycleSteps)

\* The second cycle is at its end, after a check-up that wrote the main
\* dataset and a curation session that had urls to look at.
C29_SecondCycleFinished ==
    /\ proc.pc = "finished"
    /\ proc.cycles >= 2
    /\ proc.ran = CycleSteps
    /\ urls_txt # <<>>
    /\ main.exists

\* C30, as claimed: start-up on an empty or absent memory store builds the
\* initial memory and enters the autonomous loop; start-up exits only when
\* the store cannot be loaded.
C30_EmptyMemoryEntersLoop ==
    [][main_init
       => /\ Construct(index_file, meta_file, damaged).outcome = "none"
             => proc'.pc = "harvest"
          /\ proc'.pc = "exit"
             => Construct(index_file, meta_file, damaged).outcome # "none"]_vars

====
